---- MODULE Spec2Model ----
(***************************************************************************)
(* Model of src/app.js: an Express application serving an in-memory list   *)
(* of pastes.  The middleware stack is, in registration order,             *)
(*   express.json(), app.use("/pastes/:pasteId"), app.get("/pastes"),      *)
(*   app.post("/pastes", bodyHasTextProperty, create), the not-found       *)
(*   handler and the general error handler.                                *)
(*                                                                         *)
(* A JavaScript string is a sequence of tokens (TLA+ strings); a path is a *)
(* sequence of segments.  A JavaScript value is a record tagged by t.      *)
(***************************************************************************)
EXTENDS Integers, Sequences, FiniteSets, TLC

VARIABLES pastes, lastPasteId, conn, seed, created

vars == <<pastes, lastPasteId, conn, seed, created>>

\* ---------------------------------------------------------------- bounds
MaxInflight == 2
MaxCreates == 2

Slots == 1..MaxInflight

\* ------------------------------------------------------ JavaScript values
\* A value is tagged by its type; an object literal { name, ..., user_id }
\* carries its six fields in f, each a value (Undefined when absent).
Undefined == [t |-> "undefined", v |-> ""]
Null == [t |-> "null", v |-> ""]
Str(s) == [t |-> "string", v |-> s]
Zero == [t |-> "number", v |-> "0"]

Truthy(x) ==
  CASE x.t = "undefined" -> FALSE
    [] x.t = "null" -> FALSE
    [] x.t = "string" -> x.v # ""
    [] x.t = "number" -> x.v # "0"
    [] OTHER -> TRUE

NoFields ==
  [name |-> Undefined, syntax |-> Undefined, exposure |-> Undefined,
   expiration |-> Undefined, text |-> Undefined, user_id |-> Undefined]

DataObj(f) == [t |-> "object", f |-> f]

\* `const { data: { ... } = {} } = req.body` : the default {} replaces an
\* undefined data only; destructuring null throws a TypeError; a primitive
\* such as a string has none of the properties.
DestructureThrows(data) == data.t = "null"

DataFields(data) == IF data.t = "object" THEN data.f ELSE NoFields

\* ---------------------------------------------------------------- pastes
Paste(i, f) ==
  [id |-> i, name |-> f.name, syntax |-> f.syntax, exposure |-> f.exposure,
   expiration |-> f.expiration, text |-> f.text, user_id |-> f.user_id]

SeedPaste(i, txt) == Paste(i, [NoFields EXCEPT !.text = Str(txt), !.name = Str("seed")])

\* ./data/pastes-data: records with unique, increasing integer ids
Seeds ==
  { <<>>,
    <<SeedPaste(1, "one")>>,
    <<SeedPaste(1, "one"), SeedPaste(2, "two")>>,
    <<SeedPaste(2, "two"), SeedPaste(4, "four")>> }

ConcSeeds == { <<>>, <<SeedPaste(2, "two"), SeedPaste(4, "four")>> }

Max(a, b) == IF a >= b THEN a ELSE b

RECURSIVE MaxId(_)
\* pastes.reduce((maxId, paste) => Math.max(maxId, paste.id), 0)
MaxId(ps) == IF ps = <<>> THEN 0 ELSE Max(MaxId(SubSeq(ps, 1, Len(ps) - 1)), ps[Len(ps)].id)

Ids(ps) == {ps[i].id : i \in 1..Len(ps)}

\* --------------------------------------------------------------- Number()
DigitTokens == {"0", "1", "2", "3", "4", "5", "6", "7", "8", "9"}

DigitVal(d) ==
  CASE d = "0" -> 0 [] d = "1" -> 1 [] d = "2" -> 2 [] d = "3" -> 3 [] d = "4" -> 4
    [] d = "5" -> 5 [] d = "6" -> 6 [] d = "7" -> 7 [] d = "8" -> 8 [] OTHER -> 9

RECURSIVE DigitsVal(_)
DigitsVal(ds) ==
  IF ds = <<>> THEN 0 ELSE 10 * DigitsVal(SubSeq(ds, 1, Len(ds) - 1)) + DigitVal(ds[Len(ds)])

AllDigits(ds) == \A i \in 1..Len(ds) : ds[i] \in DigitTokens

NaN == [kind |-> "NaN", val |-> 0]

\* Number(string) over the tokens digits, "." and anything else: a decimal
\* literal  digits [. [digits]]  or  . digits ; every other string is NaN.
\* kind "frac" is a number with a non-zero fractional part (val its floor).
Number(str) ==
  LET dots == {i \in 1..Len(str) : str[i] = "."}
  IN  IF dots = {}
      THEN IF str # <<>> /\ AllDigits(str)
           THEN [kind |-> "int", val |-> DigitsVal(str)]
           ELSE NaN
      ELSE LET d == CHOOSE i \in dots : \A j \in dots : i <= j
               ip == SubSeq(str, 1, d - 1)
               fp == SubSeq(str, d + 1, Len(str))
           IN  IF AllDigits(ip) /\ AllDigits(fp) /\ Len(ip) + Len(fp) > 0
               THEN [kind |-> IF DigitsVal(fp) = 0 THEN "int" ELSE "frac",
                     val |-> DigitsVal(ip)]
               ELSE NaN

\* mutant: the comparison made after parseInt-like truncation
StrictEqTruncated(id, n) == n.kind # "NaN" /\ id = n.val

\* paste.id === Number(pasteId)
StrictEq(id, n) == n.kind = "int" /\ id = n.val

\* pastes.find(...) : index of the first match, 0 for undefined
Find(ps, n) ==
  IF \E i \in 1..Len(ps) : StrictEq(ps[i].id, n)
  THEN CHOOSE i \in 1..Len(ps) :
         StrictEq(ps[i].id, n) /\ \A j \in 1..(i - 1) : ~StrictEq(ps[j].id, n)
  ELSE 0

\* ------------------------------------------------------- requests, routes
PastesSeg == <<"pastes">>

RECURSIVE OriginalUrl(_)
\* req.originalUrl of a path: "/" before every segment ("/" alone for the root)
OriginalUrl(path) ==
  IF path = <<>> THEN <<"/">>
  ELSE IF Len(path) = 1 THEN <<"/">> \o path[1]
  ELSE OriginalUrl(SubSeq(path, 1, Len(path) - 1)) \o <<"/">> \o path[Len(path)]

\* app.use("/pastes/:pasteId", ...) : any method, any path with that prefix
MatchesPasteId(req) == Len(req.path) >= 2 /\ req.path[1] = PastesSeg

\* app.get("/pastes", ...) : GET, and HEAD (Express answers HEAD by the GET route)
MatchesList(req) == req.method \in {"GET", "HEAD"} /\ req.path = <<PastesSeg>>

\* app.post("/pastes", ...)
MatchesCreate(req) == req.method = "POST" /\ req.path = <<PastesSeg>>

\* the first layer of the stack, in registration order, that matches
Dispatch(req) ==
  IF MatchesPasteId(req) THEN "lookup"
  ELSE IF MatchesList(req) THEN "list"
  ELSE IF MatchesCreate(req) THEN "validate"
  ELSE "fallback"

\* ------------------------------------------------- error values, responses
\* A value handed to next(err) or thrown: a string, or an object with some
\* of the properties status and message (has).
NoError == [kind |-> "none", str |-> <<>>, has |-> {}, status |-> 0, message |-> <<>>]

ErrString(str) == [kind |-> "string", str |-> str, has |-> {}, status |-> 0, message |-> <<>>]

ErrObject(status, message) ==
  [kind |-> "object", str |-> <<>>, has |-> {"status", "message"},
   status |-> status, message |-> message]

\* a thrown JavaScript Error: a message, no status
ErrThrown(message) ==
  [kind |-> "object", str |-> <<>>, has |-> {"message"}, status |-> 0, message |-> message]

TextRequired == <<"A 'text' property is required.">>
SomethingWentWrong == <<"Something went wrong!">>
PasteIdNotFound == <<"Paste id not found: ">>
NotFoundPrefix == <<"Not found: ">>
\* the engine's and the body parser's own messages
TypeErrorMessage == <<"Cannot destructure property 'text' of 'object.data' as it is null.">>
ParseErrorMessage == <<"Unexpected token in JSON">>

TypeError == ErrThrown(TypeErrorMessage)
\* express.json() on a body that is not JSON: an error with status 400
ParseError == ErrObject(400, ParseErrorMessage)

\* const { status = 500, message = "Something went wrong!" } = error
StatusOf(error) == IF "status" \in error.has THEN error.status ELSE 500

\* mutant: the message is never taken from the error
MessageOfDefaultOnly(error) == SomethingWentWrong

MessageOf(error) == IF "message" \in error.has THEN error.message ELSE SomethingWentWrong

\* res.status(status).json({ key: val })
Response(status, key, val) == [status |-> status, key |-> key, val |-> val]

\* mutant: the counter advanced by two
NextIdSkipping(counter) == counter + 2

\* id: ++lastPasteId
NextId(counter) == counter + 1

\* mutant: the name left out of the new record
NewPasteWithoutName(id, data) == Paste(id, [DataFields(data) EXCEPT !.name = Undefined])

NewPaste(id, data) == Paste(id, DataFields(data))

\* ----------------------------------------------------------------- inputs
NoBody == [kind |-> "none", data |-> Undefined]
Malformed == [kind |-> "malformed", data |-> Undefined]
Json(data) == [kind |-> "json", data |-> data]

WithText(text) == DataObj([NoFields EXCEPT !.text = text])

FullData ==
  DataObj([name |-> Str("n"), syntax |-> Str("js"), exposure |-> Str("public"),
           expiration |-> Zero, text |-> Str("full"), user_id |-> Null])

Bodies ==
  { NoBody, Malformed, Json(Undefined), Json(Null), Json(Str("abc")),
    Json(DataObj(NoFields)), Json(WithText(Str(""))), Json(WithText(Zero)),
    Json(WithText(Str("hello"))), Json(FullData) }

PasteIds ==
  { <<"1">>, <<"0", "1">>, <<"1", ".", "0">>, <<"1", ".", "5">>, <<"3">>,
    <<"abc">>, <<"9", "9", "9", "9", "9", "9">> }

Paths ==
  { <<>>, <<PastesSeg>>, <<<<"unknown">>, <<"path">>>>, <<PastesSeg, <<"1">>, <<"extra">>>> }
    \cup { <<PastesSeg, id>> : id \in PasteIds }

Methods == {"GET", "HEAD", "POST", "PUT", "DELETE"}

Requests ==
  { r \in [method : Methods, path : Paths, body : Bodies] :
      r.method # "POST" => r.body \in {NoBody, Malformed} }

ConcRequests ==
  { [method |-> "POST", path |-> <<PastesSeg>>, body |-> Json(WithText(Str("hello")))],
    [method |-> "POST", path |-> <<PastesSeg>>, body |-> Json(DataObj(NoFields))],
    [method |-> "POST", path |-> <<PastesSeg>>, body |-> Json(Null)],
    [method |-> "GET", path |-> <<PastesSeg>>, body |-> NoBody],
    [method |-> "GET", path |-> <<PastesSeg, <<"2">>>>, body |-> NoBody],
    [method |-> "GET", path |-> <<<<"unknown">>, <<"path">>>>, body |-> NoBody] }

NoReq == [method |-> "", path |-> <<>>, body |-> NoBody]

Idle == [pc |-> "idle", req |-> NoReq, error |-> NoError, sent |-> <<>>]

\* a request that the create handler will serve
WillCreate(req) ==
  /\ req.body.kind # "malformed"
  /\ Dispatch(req) = "validate"
  /\ ~DestructureThrows(req.body.data)
  /\ Truthy(DataFields(req.body.data).text)

Busy(s) == conn[s].pc \notin {"idle", "done"}

\* ------------------------------------------------------------------ state
InitWith(seeds) ==
  /\ seed \in seeds
  /\ pastes = seed
  /\ lastPasteId = MaxId(seed)
  /\ created = <<>>
  /\ conn = [s \in Slots |-> Idle]

Init == InitWith(Seeds)

ConcInit == InitWith(ConcSeeds)

Goto(s, pc) == conn' = [conn EXCEPT ![s].pc = pc]

\* next(err), or a throw that Express hands to the error handler
Signal(s, err) == conn' = [conn EXCEPT ![s].pc = "error", ![s].error = err]

\* res.json(...): the response is written and the exchange ends
Send(s, res) == conn' = [conn EXCEPT ![s].pc = "done", ![s].sent = Append(@, res)]

\* a request arrives on a free connection; creations are capped at MaxCreates
Receive(s, r) ==
  /\ ~Busy(s)
  /\ WillCreate(r) =>
       Len(created) + Cardinality({t \in Slots : Busy(t) /\ WillCreate(conn[t].req)})
         < MaxCreates
  /\ conn' = [conn EXCEPT ![s] = [pc |-> "json", req |-> r, error |-> NoError, sent |-> <<>>]]
  /\ UNCHANGED <<pastes, lastPasteId, seed, created>>

\* app.use(express.json()), then the router picks the first matching layer
JsonParse(s) ==
  /\ conn[s].pc = "json"
  /\ IF conn[s].req.body.kind = "malformed"
     THEN Signal(s, ParseError)
     ELSE Goto(s, Dispatch(conn[s].req))
  /\ UNCHANGED <<pastes, lastPasteId, seed, created>>

\* mutant: the else dropped, so a found paste is answered and next(err) is called too
PasteLookupNoElse(s) ==
  /\ conn[s].pc = "lookup"
  /\ LET pasteId == conn[s].req.path[2]
         found == Find(pastes, Number(pasteId))
         err == ErrObject(404, PasteIdNotFound \o pasteId)
     IN  IF found # 0
         THEN conn' = [conn EXCEPT ![s].pc = "error", ![s].error = err,
                                   ![s].sent = Append(@, Response(200, "data", pastes[found]))]
         ELSE Signal(s, err)
  /\ UNCHANGED <<pastes, lastPasteId, seed, created>>

\* app.use("/pastes/:pasteId", ...)
PasteLookup(s) ==
  /\ conn[s].pc = "lookup"
  /\ LET pasteId == conn[s].req.path[2]
         found == Find(pastes, Number(pasteId))
     IN  IF found # 0
         THEN Send(s, Response(200, "data", pastes[found]))
         ELSE Signal(s, ErrObject(404, PasteIdNotFound \o pasteId))
  /\ UNCHANGED <<pastes, lastPasteId, seed, created>>

\* mutant: the list answered without its first record
ListPastesTail(s) ==
  /\ conn[s].pc = "list"
  /\ Send(s, Response(200, "data", IF pastes = <<>> THEN pastes ELSE Tail(pastes)))
  /\ UNCHANGED <<pastes, lastPasteId, seed, created>>

\* app.get("/pastes", ...)
ListPastes(s) ==
  /\ conn[s].pc = "list"
  /\ Send(s, Response(200, "data", pastes))
  /\ UNCHANGED <<pastes, lastPasteId, seed, created>>

BodyHasTextProperty(s) ==
  /\ conn[s].pc = "validate"
  /\ LET data == conn[s].req.body.data
     IN  IF DestructureThrows(data) THEN Signal(s, TypeError)
         ELSE IF Truthy(DataFields(data).text) THEN Goto(s, "create")
         ELSE Signal(s, ErrObject(400, TextRequired))
  /\ UNCHANGED <<pastes, lastPasteId, seed, created>>

\* mutant: the id taken from the length of the list, not from the counter
CreatePasteIdFromLength(s) ==
  /\ conn[s].pc = "create"
  /\ LET newPaste == NewPaste(Len(pastes) + 1, conn[s].req.body.data)
     IN  /\ lastPasteId' = NextId(lastPasteId)
         /\ pastes' = Append(pastes, newPaste)
         /\ Send(s, Response(201, "data", newPaste))
         /\ created' = Append(created, newPaste)
  /\ UNCHANGED seed

\* app.post("/pastes", bodyHasTextProperty, ...): the handler after the validator
CreatePaste(s) ==
  /\ conn[s].pc = "create"
  /\ LET data == conn[s].req.body.data
         newPaste == NewPaste(NextId(lastPasteId), data)
     IN  IF DestructureThrows(data)
         THEN Signal(s, TypeError) /\ UNCHANGED <<pastes, lastPasteId, created>>
         ELSE /\ lastPasteId' = NextId(lastPasteId)
              /\ pastes' = Append(pastes, newPaste)
              /\ Send(s, Response(201, "data", newPaste))
              /\ created' = Append(created, newPaste)
  /\ UNCHANGED seed

\* the not-found handler
NotFound(s) ==
  /\ conn[s].pc = "fallback"
  /\ Signal(s, ErrString(NotFoundPrefix \o OriginalUrl(conn[s].req.path)))
  /\ UNCHANGED <<pastes, lastPasteId, seed, created>>

\* the general error handler
ErrorHandler(s) ==
  /\ conn[s].pc = "error"
  /\ Send(s, Response(StatusOf(conn[s].error), "error", MessageOf(conn[s].error)))
  /\ UNCHANGED <<pastes, lastPasteId, seed, created>>

Progress(s) ==
  \/ JsonParse(s)
  \/ PasteLookup(s)
  \/ ListPastes(s)
  \/ BodyHasTextProperty(s)
  \/ CreatePaste(s)
  \/ NotFound(s)
  \/ ErrorHandler(s)

\* one request at a time, over all of Requests
Next ==
  \/ \E r \in Requests : Receive(1, r)
  \/ Progress(1)

Spec == Init /\ [][Next]_vars

\* the event loop runs every callback that is ready: an exchange's next stage
\* is eventually run
LiveSpec == Spec /\ WF_vars(Progress(1))

\* up to MaxInflight requests in flight, interleaved between handler bodies
ConcNext ==
  \/ \E s \in Slots : \E r \in ConcRequests : Receive(s, r)
  \/ \E s \in Slots : Progress(s)

ConcSpec == ConcInit /\ [][ConcNext]_vars


\* ================================================================ claims
Done(s) == conn[s].pc = "done"

Parsed(req) == req.body.kind # "malformed"

\* exactly one response was written, with this status and body { key: val }
ResponseIs(sent, status, key, val) ==
  /\ Len(sent) = 1
  /\ sent[1].status = status
  /\ sent[1].key = key
  /\ sent[1].val = val

\* C1: every request that no route matches is answered 404 with body
\* {error: "Not found: <original-url>"}.
C1_UnmatchedIs404 ==
  \A s \in Slots :
    (Done(s) /\ Parsed(conn[s].req) /\ Dispatch(conn[s].req) = "fallback")
      => ResponseIs(conn[s].sent, 404, "error",
                    NotFoundPrefix \o OriginalUrl(conn[s].req.path))

\* data.text is missing or falsy: no data object at all, or a falsy text in it
TextMissingOrFalsy(body) ==
  \/ body.data.t \in {"undefined", "null"}
  \/ ~Truthy(DataFields(body.data).text)

\* C2: every POST /pastes whose parsed body has a missing or falsy data.text
\* is answered 400 with {error: "A 'text' property is required."} and never
\* reaches the create handler.
C2_MissingTextIs400 ==
  \A s \in Slots :
    LET req == conn[s].req
    IN  (req.method = "POST" /\ req.path = <<PastesSeg>> /\ Parsed(req)
           /\ TextMissingOrFalsy(req.body))
          => /\ conn[s].pc # "create"
             /\ Done(s) => ResponseIs(conn[s].sent, 400, "error", TextRequired)

\* the three method/path combinations the interface lists (a HEAD counts with
\* the GET it is answered by)
Listed(req) ==
  \/ req.method \in {"GET", "HEAD"} /\ req.path = <<PastesSeg>>
  \/ req.method \in {"GET", "HEAD"} /\ Len(req.path) = 2 /\ req.path[1] = PastesSeg
  \/ req.method = "POST" /\ req.path = <<PastesSeg>>

\* C8: every method/path combination other than GET /pastes,
\* GET /pastes/:pasteId and POST /pastes reaches the fallback handler, which
\* signals "Not found: <original-url>".
C8_OthersReachFallback ==
  \A s \in Slots :
    LET req == conn[s].req
    IN  (conn[s].pc \notin {"idle", "json"} /\ Parsed(req) /\ ~Listed(req))
          => /\ conn[s].pc \in {"fallback", "error", "done"}
             /\ conn[s].pc \in {"error", "done"}
                  => conn[s].error = ErrString(NotFoundPrefix \o OriginalUrl(req.path))

IsValidationError(e) == "status" \in e.has /\ e.status = 400

IsNotFoundError(e) == "status" \in e.has /\ e.status = 404

DigitToken(d) ==
  CASE d = 0 -> "0" [] d = 1 -> "1" [] d = 2 -> "2" [] d = 3 -> "3" [] d = 4 -> "4"
    [] d = 5 -> "5" [] d = 6 -> "6" [] d = 7 -> "7" [] d = 8 -> "8" [] OTHER -> "9"

RECURSIVE ToDigits(_)
ToDigits(n) == IF n < 10 THEN <<DigitToken(n)>> ELSE ToDigits(n \div 10) \o <<DigitToken(n % 10)>>

IsGetById(req) == req.method = "GET" /\ Dispatch(req) = "lookup" /\ Parsed(req)

\* C3: a POST /pastes with a truthy data.text is answered 201 with
\* {data: newRecord}: newRecord carries the submitted text and the other
\* submitted fields verbatim and an id that no earlier record holds; in every
\* later state GET /pastes/<newRecord.id> finds that record, and every such
\* GET that was answered got 200 with it.
C3_CreatedAndRetrievable ==
  /\ \A s \in Slots :
       (Done(s) /\ WillCreate(conn[s].req))
         => /\ pastes # <<>>
            /\ LET rec == pastes[Len(pastes)]
                   sub == conn[s].req.body.data.f
               IN  /\ ResponseIs(conn[s].sent, 201, "data", rec)
                   /\ rec.text = sub.text
                   /\ rec.name = sub.name
                   /\ rec.syntax = sub.syntax
                   /\ rec.exposure = sub.exposure
                   /\ rec.expiration = sub.expiration
                   /\ rec.user_id = sub.user_id
                   /\ rec.id \in Nat
                   /\ \A j \in 1..(Len(pastes) - 1) : pastes[j].id # rec.id
  /\ \A i \in 1..Len(created) :
       /\ LET k == Find(pastes, Number(ToDigits(created[i].id)))
          IN  k # 0 /\ pastes[k] = created[i]
       /\ \A s \in Slots :
            (Done(s) /\ IsGetById(conn[s].req)
               /\ conn[s].req.path[2] = ToDigits(created[i].id))
              => ResponseIs(conn[s].sent, 200, "data", created[i])

\* a created record was fetched by its id after a further creation
C3_Witness ==
  \E s \in Slots :
    /\ Done(s)
    /\ IsGetById(conn[s].req)
    /\ Len(created) >= 2
    /\ conn[s].req.path[2] = ToDigits(created[1].id)
    /\ ResponseIs(conn[s].sent, 200, "data", created[1])

\* C4: the i-th successful creation gets the id seed-max + i, whatever other
\* requests come in between; the ids are distinct, strictly increasing and
\* greater than every id present before.
C4_SequentialIds ==
  /\ lastPasteId = MaxId(seed) + Len(created)
  /\ \A i \in 1..Len(created) :
       /\ created[i].id = MaxId(seed) + i
       /\ \A j \in 1..Len(seed) : seed[j].id < created[i].id
       /\ \A j \in 1..(i - 1) : created[j].id < created[i].id

\* two creations over a seed with a gap, a rejected creation just answered
C4_Witness ==
  /\ Len(created) = 2
  /\ Len(seed) = 2
  /\ seed[2].id = 4
  /\ Done(1)
  /\ ResponseIs(conn[1].sent, 400, "error", TextRequired)

C5_Answer ==
  \A s \in Slots :
    (Done(s) /\ IsGetById(conn[s].req))
      => LET pasteId == conn[s].req.path[2]
             n == Number(pasteId)
             hits == {i \in 1..Len(pastes) : n.kind = "int" /\ pastes[i].id = n.val}
         IN  IF hits # {}
             THEN \E i \in hits : ResponseIs(conn[s].sent, 200, "data", pastes[i])
             ELSE ResponseIs(conn[s].sent, 404, "error", PasteIdNotFound \o pasteId)

C5_StoreUntouched ==
  \A s \in Slots :
    (conn[s].pc = "lookup" /\ conn'[s].pc # "lookup")
      => pastes' = pastes /\ lastPasteId' = lastPasteId

\* C5: GET /pastes/:pasteId is answered 200 with the record whose id equals
\* the numeric value of pasteId when the store holds one, and otherwise 404
\* with {error: "Paste id not found: <id>"}, <id> as written in the path; the
\* store and the id counter are unchanged by it.
C5_Lookup == []C5_Answer /\ [][C5_StoreUntouched]_vars

\* /pastes/01 was answered with the record of id 1
C5_Witness ==
  \E s \in Slots :
    /\ Done(s)
    /\ IsGetById(conn[s].req)
    /\ conn[s].req.path[2] = <<"0", "1">>
    /\ Len(conn[s].sent) = 1
    /\ conn[s].sent[1].status = 200
    /\ conn[s].sent[1].val.id = 1

C6_List ==
  /\ pastes = seed \o created
  /\ Len(pastes) = Len(seed) + Len(created)
  /\ \A s \in Slots :
       (Done(s) /\ conn[s].req.method = "GET" /\ Dispatch(conn[s].req) = "list"
          /\ Parsed(conn[s].req))
         => ResponseIs(conn[s].sent, 200, "data", seed \o created)

C6_OnlyCreationsAppend ==
  pastes' # pastes
    => \E s \in Slots :
         /\ conn[s].pc = "create"
         /\ Len(conn'[s].sent) = 1
         /\ conn'[s].sent[1].status = 201
         /\ pastes' = Append(pastes, conn'[s].sent[1].val)
         /\ created' = Append(created, conn'[s].sent[1].val)

\* C6: GET /pastes is answered 200 with the seed records followed by the
\* created records in creation order; only a successful creation changes the
\* store, by appending its record, so lists with no creation between them agree.
C6_ListIsSeedThenCreated == []C6_List /\ [][C6_OnlyCreationsAppend]_vars

\* a list answered with two seed records and two created ones
C6_Witness ==
  /\ Done(1)
  /\ conn[1].req.method = "GET"
  /\ Dispatch(conn[1].req) = "list"
  /\ Len(seed) = 2
  /\ Len(created) = 2
  /\ Len(conn[1].sent) = 1
  /\ Len(conn[1].sent[1].val) = 4

Stages == {"idle", "json", "lookup", "list", "validate", "create", "fallback", "error", "done"}

C9_OneResponse ==
  \A s \in Slots :
    /\ conn[s].pc \in Stages
    /\ Len(conn[s].sent) <= 1
    /\ Done(s) <=> Len(conn[s].sent) = 1
    /\ Done(s) => (conn[s].sent[1].key = "data" <=> conn[s].error = NoError)
    /\ conn[s].pc = "error" => conn[s].error # NoError

\* the only step out of the error responder writes the error response and ends
C9_ErrorResponderEnds ==
  \A s \in Slots :
    (conn[s].pc = "error" /\ conn'[s] # conn[s])
      => /\ conn'[s].pc = "done"
         /\ Len(conn'[s].sent) = 1
         /\ conn'[s].sent[1].key = "error"

C9_Terminates == \A s \in Slots : Busy(s) ~> Done(s)

\* C9: every request moves through parsing and routing to a handler or to
\* the error responder and ends with exactly one response: none is written
\* before the end, a success response is never followed by an error, and the
\* error responder, once entered, writes the response and ends the exchange.
C9_ExactlyOneResponse ==
  []C9_OneResponse /\ [][C9_ErrorResponderEnds]_vars /\ C9_Terminates

\* an exchange that the fallback handed to the error responder has ended
C9_Witness ==
  \E s \in Slots :
    /\ Done(s)
    /\ conn[s].error.kind = "string"
    /\ Len(conn[s].sent) = 1
    /\ conn[s].sent[1].key = "error"

C10_Store ==
  /\ \A i, j \in 1..Len(pastes) : i < j => pastes[i].id < pastes[j].id
  /\ Cardinality(Ids(pastes)) = Len(pastes)
  /\ \A i \in 1..Len(pastes) : pastes[i].id <= lastPasteId
  /\ IF pastes = <<>> THEN lastPasteId = 0 ELSE lastPasteId \in Ids(pastes)

C10_IncrementAndAppendTogether ==
  (lastPasteId' # lastPasteId \/ pastes' # pastes)
    => /\ lastPasteId' = lastPasteId + 1
       /\ Len(pastes') = Len(pastes) + 1
       /\ SubSeq(pastes', 1, Len(pastes)) = pastes
       /\ pastes'[Len(pastes')].id = lastPasteId'

\* C10: with several requests in flight, interleaved between handler bodies,
\* a creation's counter increment and append happen in one step: no two
\* records share an id, the counter equals the largest id in the store, and
\* the records are in increasing id order.
C10_NoDuplicateIds == []C10_Store /\ [][C10_IncrementAndAppendTogether]_vars

\* two creations were admitted together: one is answered, the other is about
\* to run its handler
C10_Witness ==
  \E s, t \in Slots :
    /\ Done(s) /\ conn[s].sent[1].status = 201
    /\ conn[s].sent[1].val.id = lastPasteId
    /\ conn[t].pc = "create"

====
